---- MODULE Spec2Model ----
(***************************************************************************)
(* Mirror clock task generator: src/src/generator.py, src/src/prompts.py,  *)
(* src/src/config.py and the command line of src/examples/generate_data.py. *)
(*                                                                         *)
(* Text is a sequence of one-character strings, so that formatting is      *)
(* computed character by character.  An Optional value is "None" where the *)
(* value is a string and the empty sequence where it is structured.        *)
(***************************************************************************)
EXTENDS Integers, Sequences, FiniteSets, TLC

VARIABLES
    pc,                  \* position of the running call
    config,              \* TaskConfig: the shared configuration object
    video_generator,     \* TaskGenerator.video_generator: <<>> is None
    pairs,               \* the list of TaskPair records built by generate_dataset
    task_counter,        \* _generate_balanced_dataset: task_counter
    remaining,           \* _generate_balanced_dataset: remaining
    group,               \* index into difficulties of the running for loop
    count,               \* _generate_balanced_dataset: count
    i,                   \* the inner loop's i
    original_difficulty, \* _generate_balanced_dataset: original_difficulty
    printed,             \* the "Generated: ..." lines written to stdout
    levels,              \* history: the difficulty each generate_task_pair call ran at
    locals,              \* the locals of the last generate_task_pair call
    frames,              \* the frames last handed to create_video_from_frames
    args,                \* arguments of a directly called function
    result               \* value returned by the last call

vars == <<pc, config, video_generator, pairs, task_counter, remaining, group,
          count, i, original_difficulty, printed, levels, locals, frames, args,
          result>>

datasetVars == <<pairs, task_counter, remaining, group, count, i,
                 original_difficulty, printed, levels>>

----------------------------------------------------------------------------
(* Bounds of the model *)

MaxSamples == 4         \* config.num_samples ranges over 0..MaxSamples
MaxAddHours == 4        \* _add_time is called with add_hours in 0..MaxAddHours
MaxFormatHours == 11    \* _format_time_delta is called with hours in 0..MaxFormatHours

----------------------------------------------------------------------------
(* The random module: the values one call can return *)

randint(a, b) == a..b

choice(seq) == {seq[k] : k \in DOMAIN seq}

None == "None"

difficulties == <<"easy", "medium", "hard">>

----------------------------------------------------------------------------
(* Time generation methods *)

_generate_random_time_24_hour(difficulty) ==
    IF difficulty = "easy"
    THEN {<<hours, 0>> : hours \in randint(0, 23)}
    ELSE IF difficulty = "medium"
    THEN {<<hours, minutes>> :
            hours \in randint(0, 23),
            minutes \in choice(<<0, 5, 10, 15, 20, 25, 30, 35, 40, 45, 50, 55>>)}
    ELSE {<<hours, minutes>> : hours \in randint(0, 23), minutes \in randint(0, 59)}

_generate_random_time(difficulty) ==
    IF difficulty = "easy"
    THEN {<<hours, 0>> : hours \in randint(1, 12)}
    ELSE IF difficulty = "medium"
    THEN {<<hours, minutes>> :
            hours \in randint(1, 12),
            minutes \in choice(<<0, 5, 10, 15, 20, 25, 30, 35, 40, 45, 50, 55>>)}
    ELSE {<<hours, minutes>> : hours \in randint(1, 12), minutes \in randint(0, 59)}

\* the values random returns, in order, to one _generate_time_delta call: hours,
\* minutes and, at hard when both are zero, the second draw of minutes
delta_draws(difficulty) ==
    IF difficulty = "easy"
    THEN {<<hours>> : hours \in randint(1, 3)}
    ELSE IF difficulty = "medium"
    THEN {<<hours, minutes>> : hours \in randint(0, 2), minutes \in choice(<<0, 30>>)}
    ELSE UNION {IF hours = 0 /\ minutes = 0
                THEN {<<hours, minutes, again>> : again \in randint(15, 45)}
                ELSE {<<hours, minutes>>} :
                  hours \in randint(0, 3), minutes \in randint(0, 59)}

_generate_time_delta_keeps_zero(difficulty, drawn) ==
    IF difficulty = "easy"
    THEN <<drawn[1], 0>>
    ELSE <<drawn[1], drawn[2]>>

_generate_time_delta_redraws_hours(difficulty, drawn) ==
    IF difficulty = "easy"
    THEN <<drawn[1], 0>>
    ELSE IF difficulty = "medium"
    THEN LET hours == drawn[1]
             minutes == drawn[2]
         IN  IF hours = 0 /\ minutes = 0 THEN <<1, minutes>> ELSE <<hours, minutes>>
    ELSE LET hours == drawn[1]
             minutes == drawn[2]
         IN  IF hours = 0 /\ minutes = 0 THEN <<drawn[3], minutes>> ELSE <<hours, minutes>>

_generate_time_delta(difficulty, drawn) ==
    IF difficulty = "easy"
    THEN <<drawn[1], 0>>
    ELSE IF difficulty = "medium"
    THEN LET hours == drawn[1]
             minutes == drawn[2]
         IN  IF hours = 0 /\ minutes = 0 THEN <<1, minutes>> ELSE <<hours, minutes>>
    ELSE LET hours == drawn[1]
             minutes == drawn[2]
         IN  IF hours = 0 /\ minutes = 0 THEN <<hours, drawn[3]>> ELSE <<hours, minutes>>

_add_time_no_carry(hours, minutes, add_hours, add_minutes) ==
    LET total_minutes == minutes + add_minutes
        new_minutes == total_minutes % 60
        new_hours == (hours + add_hours) % 24
    IN  <<new_hours, new_minutes>>

_add_time(hours, minutes, add_hours, add_minutes) ==
    LET total_minutes == minutes + add_minutes
        extra_hours == total_minutes \div 60
        new_minutes == total_minutes % 60
        new_hours == (hours + add_hours + extra_hours) % 24
    IN  <<new_hours, new_minutes>>

----------------------------------------------------------------------------
(* Text *)

Digits == <<"0", "1", "2", "3", "4", "5", "6", "7", "8", "9">>

RECURSIVE str(_)
\* str(n) of a natural number: its decimal digits
str(n) == IF n < 10 THEN <<Digits[n + 1]>> ELSE str(n \div 10) \o <<Digits[(n % 10) + 1]>>

\* format(n, "04d"): decimal digits, zero-padded on the left to a width of 4
format04d(n) ==
    LET digits == str(n)
        pad == IF Len(digits) < 4 THEN 4 - Len(digits) ELSE 0
    IN  [k \in 1..pad |-> "0"] \o digits

HOUR == <<" ", "h", "o", "u", "r">>
MINUTE == <<" ", "m", "i", "n", "u", "t", "e">>
AND == <<" ", "a", "n", "d", " ">>

_format_time_delta_plural_by_last_digit(hours, minutes) ==
    LET s(v) == IF v % 10 # 1 THEN <<"s">> ELSE <<>>
    IN  IF hours = 0
        THEN str(minutes) \o MINUTE \o s(minutes)
        ELSE IF minutes = 0
        THEN str(hours) \o HOUR \o s(hours)
        ELSE str(hours) \o HOUR \o s(hours) \o AND \o str(minutes) \o MINUTE \o s(minutes)

_format_time_delta(hours, minutes) ==
    LET s(v) == IF v # 1 THEN <<"s">> ELSE <<>>
    IN  IF hours = 0
        THEN str(minutes) \o MINUTE \o s(minutes)
        ELSE IF minutes = 0
        THEN str(hours) \o HOUR \o s(hours)
        ELSE str(hours) \o HOUR \o s(hours) \o AND \o str(minutes) \o MINUTE \o s(minutes)

----------------------------------------------------------------------------
(* Images.  A face is what draw_clock paints: the two hand angles (in half  *)
(* degrees, clockwise from 12) and whether the picture is flipped.  An image *)
(* is a mixture of faces, mix[f] / den of face f, so that a blend is the     *)
(* exact linear interpolation of its two operands.                           *)

RECURSIVE gcd(_, _)
gcd(a, b) == IF b = 0 THEN a ELSE gcd(b, a % b)

RECURSIVE gcdOf(_)
gcdOf(S) == IF S = {} THEN 0 ELSE LET x == CHOOSE y \in S : TRUE IN gcd(x, gcdOf(S \ {x}))

\* an image in lowest terms, without the faces of weight 0
Image(size, den, weight, faces) ==
    LET dom == {f \in faces : weight[f] > 0}
        g == gcdOf({den} \cup {weight[f] : f \in dom})
    IN  [size |-> size, den |-> den \div g, mix |-> [f \in dom |-> weight[f] \div g]]

ClockRenderer(image_size) == [image_size |-> image_size]

draw_clock_hour_hand_24(self, hours, minutes) ==
    LET hour_angle == (hours * 60) + minutes
        minute_angle == minutes * 12
        face == [hour_angle |-> hour_angle, minute_angle |-> minute_angle, flipped |-> FALSE]
    IN  Image(<<self.image_size, self.image_size>>, 1, [f \in {face} |-> 1], {face})

draw_clock(self, hours, minutes) ==
    LET hours_12 == hours % 12
        hour_angle == (hours_12 * 60) + minutes
        minute_angle == minutes * 12
        face == [hour_angle |-> hour_angle, minute_angle |-> minute_angle, flipped |-> FALSE]
    IN  Image(<<self.image_size, self.image_size>>, 1, [f \in {face} |-> 1], {face})

\* Image.transpose(Image.FLIP_LEFT_RIGHT)
transpose(img) ==
    LET flip(f) == [f EXCEPT !.flipped = ~@]
    IN  [img EXCEPT !.mix = [f \in {flip(g) : g \in DOMAIN img.mix} |-> img.mix[flip(f)]]]

\* Image.resize(size, LANCZOS)
resize(img, size) == [img EXCEPT !.size = size]

\* Image.blend(im1, im2, alpha) with alpha = num / den: im1 * (1 - alpha) + im2 * alpha
blend(im1, im2, num, den) ==
    LET faces == DOMAIN im1.mix \cup DOMAIN im2.mix
        w1(f) == IF f \in DOMAIN im1.mix THEN im1.mix[f] ELSE 0
        w2(f) == IF f \in DOMAIN im2.mix THEN im2.mix[f] ELSE 0
        weight == [f \in faces |-> (w1(f) * im2.den * (den - num)) + (w2(f) * im1.den * num)]
    IN  Image(im1.size, im1.den * im2.den * den, weight, faces)

----------------------------------------------------------------------------
(* Video generation *)

HoldFrames == 15
TransitionFrames == 20

VideoGenerator(fps, output_format) == [fps |-> fps, output_format |-> output_format]

\* the frames of one crossfade: for i in range(20): alpha = i / (20 - 1)
crossfade_alpha_over_count(from_rgba, to_rgba) ==
    [k \in 1..TransitionFrames |-> blend(from_rgba, to_rgba, k - 1, TransitionFrames)]

crossfade(from_rgba, to_rgba) ==
    [k \in 1..TransitionFrames |->
        IF TransitionFrames > 1
        THEN blend(from_rgba, to_rgba, k - 1, TransitionFrames - 1)
        ELSE blend(from_rgba, to_rgba, 1, 1)]

hold(img, n) == [k \in 1..n |-> img]

\* the frames list _generate_video builds, lines 255-289
video_frames_hold_by_fps(generator, first_image, final_image, original_image) ==
    LET mirrored_rgba == first_image
        original_rgba == IF mirrored_rgba.size # original_image.size
                         THEN resize(original_image, mirrored_rgba.size)
                         ELSE original_image
        future_rgba == IF original_rgba.size # final_image.size
                       THEN resize(final_image, original_rgba.size)
                       ELSE final_image
        seconds == (generator.fps * 3) \div 2
    IN  hold(first_image, seconds)
            \o crossfade(mirrored_rgba, original_rgba)
            \o hold(original_image, seconds)
            \o crossfade(original_rgba, future_rgba)
            \o hold(final_image, seconds)

video_frames(generator, first_image, final_image, original_image) ==
    LET mirrored_rgba == first_image
        original_rgba == IF mirrored_rgba.size # original_image.size
                         THEN resize(original_image, mirrored_rgba.size)
                         ELSE original_image
        future_rgba == IF original_rgba.size # final_image.size
                       THEN resize(final_image, original_rgba.size)
                       ELSE final_image
    IN  hold(first_image, HoldFrames)
            \o crossfade(mirrored_rgba, original_rgba)
            \o hold(original_image, HoldFrames)
            \o crossfade(original_rgba, future_rgba)
            \o hold(final_image, HoldFrames)

\* temp_dir / f"{task_id}_ground_truth.mp4"
video_path(domain, task_id) ==
    <<"tempdir", "/">> \o domain \o <<"_videos", "/">> \o task_id \o <<"_ground_truth.mp4">>

\* VideoGenerator.create_video_from_frames: the written file's path, or None
create_video_from_frames(frame_list, path, encoded) == IF encoded THEN path ELSE <<>>

_generate_video_str_of_none(self, first_image, final_image, task_id, original_image, encoded) ==
    IF self.video_generator = <<>>
    THEN <<>>
    ELSE LET path == video_path(self.config.domain, task_id)
             frame_list == video_frames(self.video_generator[1], first_image,
                                        final_image, original_image)
             created == create_video_from_frames(frame_list, path, encoded)
         IN  IF created # <<>> THEN created ELSE <<"N", "o", "n", "e">>

\* the value _generate_video returns: the path as text, or None (<<>>)
_generate_video(self, first_image, final_image, task_id, original_image, encoded) ==
    IF self.video_generator = <<>>
    THEN <<>>
    ELSE LET path == video_path(self.config.domain, task_id)
             frame_list == video_frames(self.video_generator[1], first_image,
                                        final_image, original_image)
             created == create_video_from_frames(frame_list, path, encoded)
         IN  IF created # <<>> THEN created ELSE <<>>

----------------------------------------------------------------------------
(* Prompts.  A template is a sequence of parts: a part of literal text, or *)
(* the placeholder {time_delta}.                                           *)

PLACEHOLDER == <<"{time_delta}">>

PROMPTS == <<
    << <<"This is a mirrored clock. Follow these steps:\nStep 1: Look at the mirrored clock shown in the image.\nStep 2: Flip it horizontally to determine the original time.\nStep 3: Add ">>,
       PLACEHOLDER,
       <<" to the original time.\nWhat time will the original clock show after ">>,
       PLACEHOLDER,
       <<"?">> >>,
    << <<"The image shows a horizontally flipped clock. Solve this step by step:\nStep 1: Identify the mirrored clock in the image.\nStep 2: Unmirror it to find the original time.\nStep 3: Calculate the new time after ">>,
       PLACEHOLDER,
       <<" passes.\nWhat will be the final time?">> >>,
    << <<"This mirror-reflected clock needs to advance ">>,
       PLACEHOLDER,
       <<". Solve in steps:\nStep 1: Observe the mirrored clock face.\nStep 2: Flip it back to reveal the original time.\nStep 3: Add ">>,
       PLACEHOLDER,
       <<" to get the future time.\nShow what the original clock will display after ">>,
       PLACEHOLDER,
       <<".">> >>,
    << <<"From this mirrored clock, determine the answer step by step:\nStep 1: Examine the mirrored clock image.\nStep 2: Determine the original time by unmirroring the clock.\nStep 3: Add ">>,
       PLACEHOLDER,
       <<" to the original time.\nWhat is the result?">> >>
>>

RECURSIVE format(_, _)
\* prompt_template.format(time_delta=time_delta)
format(prompt_template, time_delta) ==
    IF prompt_template = <<>>
    THEN <<>>
    ELSE (IF Head(prompt_template) = PLACEHOLDER THEN time_delta ELSE Head(prompt_template))
            \o format(Tail(prompt_template), time_delta)

\* get_prompt with random.choice(PROMPTS) returning PROMPTS[template]
get_prompt(time_delta, template) == format(PROMPTS[template], time_delta)

----------------------------------------------------------------------------
(* Task generation *)

TaskPair(task_id, domain, prompt, first_image, final_image, ground_truth_video) ==
    [task_id |-> task_id, domain |-> domain, prompt |-> prompt,
     first_image |-> first_image, final_image |-> final_image,
     ground_truth_video |-> ground_truth_video]

\* the values random.choice(["easy", "medium", "hard"]) is asked for, lines 176-179
task_difficulty(self) ==
    IF self.config.difficulty = None THEN choice(difficulties) ELSE {self.config.difficulty}

\* the draws of _generate_time_delta whose delta is in Deltas
delta_draws_in(difficulty, Deltas) ==
    {drawn \in delta_draws(difficulty) : _generate_time_delta(difficulty, drawn) \in Deltas}

\* the random values of one generate_task_pair call
draws(difficulty, time, drawn, template, encoded) ==
    [difficulty |-> difficulty, time |-> time, drawn |-> drawn,
     template |-> template, encoded |-> encoded]

\* the locals of generate_task_pair after line 188
sampled(rnd) ==
    LET hours == rnd.time[1]
        minutes == rnd.time[2]
        delta == _generate_time_delta(rnd.difficulty, rnd.drawn)
        add_hours == delta[1]
        add_minutes == delta[2]
        future == _add_time(hours, minutes, add_hours, add_minutes)
    IN  [difficulty |-> rnd.difficulty, drawn |-> rnd.drawn,
         hours |-> hours, minutes |-> minutes,
         add_hours |-> add_hours, add_minutes |-> add_minutes,
         future_hours |-> future[1], future_minutes |-> future[2]]

\* the locals of generate_task_pair after line 208
task_locals(self, task_id, rnd) ==
    LET s == sampled(rnd)
        original_image == draw_clock(self.clock_renderer, s.hours, s.minutes)
        mirrored_image == transpose(original_image)
        future_image == draw_clock(self.clock_renderer, s.future_hours, s.future_minutes)
        attempted == self.config.generate_videos /\ self.video_generator # <<>>
        path == IF attempted
                THEN _generate_video(self, mirrored_image, future_image, task_id,
                                     original_image, rnd.encoded)
                ELSE <<>>
        time_delta_str == _format_time_delta(s.add_hours, s.add_minutes)
    IN  [difficulty |-> s.difficulty, drawn |-> s.drawn,
         hours |-> s.hours, minutes |-> s.minutes,
         add_hours |-> s.add_hours, add_minutes |-> s.add_minutes,
         future_hours |-> s.future_hours, future_minutes |-> s.future_minutes,
         original_image |-> original_image, mirrored_image |-> mirrored_image,
         future_image |-> future_image, video_attempted |-> attempted,
         encoded |-> rnd.encoded, video_path |-> path,
         time_delta_str |-> time_delta_str, template |-> rnd.template,
         prompt |-> get_prompt(time_delta_str, rnd.template)]

generate_task_pair_first_unflipped(self, task_id, rnd) ==
    LET l == task_locals(self, task_id, rnd)
    IN  TaskPair(task_id, self.config.domain, l.prompt, l.original_image,
                 l.future_image, l.video_path)

\* the record generate_task_pair returns, lines 210-217
generate_task_pair(self, task_id, rnd) ==
    LET l == task_locals(self, task_id, rnd)
    IN  TaskPair(task_id, self.config.domain, l.prompt, l.mirrored_image,
                 l.future_image, l.video_path)

----------------------------------------------------------------------------
(* Construction *)

TaskConfig(num_samples, difficulty, generate_videos, balanced_difficulty, video_fps) ==
    [num_samples |-> num_samples, domain |-> <<"mirror_clock">>,
     difficulty |-> difficulty, generate_videos |-> generate_videos,
     video_fps |-> video_fps, balanced_difficulty |-> balanced_difficulty,
     clock_size |-> 500]

\* TaskGenerator.__init__: self.video_generator, lines 168-171
init_video_generator(cfg, is_available) ==
    IF cfg.generate_videos /\ is_available
    THEN <<VideoGenerator(cfg.video_fps, "mp4")>>
    ELSE <<>>

Self == [config |-> config, video_generator |-> video_generator,
         clock_renderer |-> ClockRenderer(config.clock_size)]

Idle ==
    /\ pairs = <<>>
    /\ task_counter = 0
    /\ remaining = 0
    /\ group = 0
    /\ count = 0
    /\ i = 0
    /\ original_difficulty = None
    /\ printed = <<>>
    /\ levels = <<>>
    /\ locals = <<>>
    /\ frames = <<>>
    /\ result = <<>>

----------------------------------------------------------------------------
(* _add_time called directly *)

AddHours == 0..MaxAddHours \cup {24, 47, 48}

InitAdd ==
    /\ pc = "call"
    /\ args \in (0..23) \X (0..59) \X AddHours \X (0..59)
    /\ config = TaskConfig(0, None, FALSE, TRUE, 10)
    /\ video_generator = <<>>
    /\ Idle

call_add_time ==
    /\ pc = "call"
    /\ result' = _add_time(args[1], args[2], args[3], args[4])
    /\ pc' = "returned"
    /\ UNCHANGED <<config, video_generator, datasetVars, locals, frames, args>>

NextAdd == call_add_time

SpecAdd == InitAdd /\ [][NextAdd]_vars

----------------------------------------------------------------------------
(* _format_time_delta called directly *)

InitFormat ==
    /\ pc = "call"
    /\ args \in (0..MaxFormatHours) \X (0..59)
    /\ config = TaskConfig(0, None, FALSE, TRUE, 10)
    /\ video_generator = <<>>
    /\ Idle

call_format_time_delta ==
    /\ pc = "call"
    /\ result' = _format_time_delta(args[1], args[2])
    /\ pc' = "returned"
    /\ UNCHANGED <<config, video_generator, datasetVars, locals, frames, args>>

NextFormat == call_format_time_delta

SpecFormat == InitFormat /\ [][NextFormat]_vars

----------------------------------------------------------------------------
(* draw_clock called directly *)

InitClock ==
    /\ pc = "call"
    /\ args \in (0..23) \X (0..59)
    /\ config = TaskConfig(0, None, FALSE, TRUE, 10)
    /\ video_generator = <<>>
    /\ Idle

call_draw_clock ==
    /\ pc = "call"
    /\ result' = draw_clock(Self.clock_renderer, args[1], args[2])
    /\ pc' = "returned"
    /\ UNCHANGED <<config, video_generator, datasetVars, locals, frames, args>>

NextClock == call_draw_clock

SpecClock == InitClock /\ [][NextClock]_vars

----------------------------------------------------------------------------
(* The sampling of generate_task_pair, lines 176-188, over every value the *)
(* random module can return                                                *)

InitSample ==
    /\ pc = "call"
    /\ \E difficulty \in {None} \cup choice(difficulties) :
          config = TaskConfig(1, difficulty, FALSE, TRUE, 10)
    /\ video_generator = <<>>
    /\ args = <<>>
    /\ Idle

sample_task ==
    /\ pc = "call"
    /\ \E difficulty \in task_difficulty(Self) :
          \E time \in _generate_random_time(difficulty),
             drawn \in delta_draws(difficulty) :
             locals' = sampled(draws(difficulty, time, drawn, 1, TRUE))
    /\ pc' = "sampled"
    /\ UNCHANGED <<config, video_generator, datasetVars, frames, args, result>>

NextSample == sample_task

SpecSample == InitSample /\ [][NextSample]_vars

----------------------------------------------------------------------------
(* One generate_task_pair call *)

\* generate_task_pair(task_id) with the random values rnd: the locals, the frames
\* handed to the encoder if it is called, and the difficulty it ran at
task_step(task_id, rnd) ==
    LET l == task_locals(Self, task_id, rnd)
    IN  /\ locals' = l
        /\ frames' = IF l.video_attempted
                     THEN video_frames(video_generator[1], l.mirrored_image,
                                       l.future_image, l.original_image)
                     ELSE frames
        /\ levels' = Append(levels, rnd.difficulty)

balanced_task_id_by_group_index(domain, counter, index) ==
    domain \o <<"_">> \o format04d(index)

\* f"{self.config.domain}_{task_counter:04d}", line 420
balanced_task_id(domain, counter, index) == domain \o <<"_">> \o format04d(counter)

TaskTimes == {1, 11, 12} \X {0, 30, 45, 59}
TaskDeltas == {<<1, 0>>, <<3, 0>>, <<0, 30>>, <<2, 30>>, <<0, 1>>, <<1, 1>>, <<0, 15>>, <<3, 59>>}

InitTask ==
    /\ pc = "call"
    /\ \E difficulty \in {None} \cup choice(difficulties), generate_videos \in BOOLEAN,
          is_available \in BOOLEAN :
          /\ config = TaskConfig(1, difficulty, generate_videos, TRUE, 10)
          /\ video_generator = init_video_generator(config, is_available)
          /\ args = balanced_task_id(config.domain, 0, 0)
    /\ Idle

call_generate_task_pair ==
    /\ pc = "call"
    /\ \E difficulty \in task_difficulty(Self) :
          \E time \in _generate_random_time(difficulty) \cap TaskTimes,
             drawn \in delta_draws_in(difficulty, TaskDeltas),
             template \in DOMAIN PROMPTS, encoded \in BOOLEAN :
             LET rnd == draws(difficulty, time, drawn, template, encoded)
             IN  /\ task_step(args, rnd)
                 /\ result' = generate_task_pair(Self, args, rnd)
    /\ pc' = "returned"
    /\ UNCHANGED <<config, video_generator, pairs, task_counter, remaining, group,
                   count, i, original_difficulty, printed, args>>

NextTask == call_generate_task_pair

SpecTask == InitTask /\ [][NextTask]_vars

----------------------------------------------------------------------------
(* _generate_video called directly *)

FpsValues == {1, 10, 30}
VideoTimes == {<<3, 0>>, <<6, 30>>, <<9, 15>>, <<12, 0>>, <<1, 59>>, <<15, 0>>}

InitVideo ==
    /\ pc = "call"
    /\ \E video_fps \in FpsValues, is_available \in BOOLEAN :
          /\ config = TaskConfig(1, None, TRUE, TRUE, video_fps)
          /\ video_generator = init_video_generator(config, is_available)
    /\ \E time \in VideoTimes, future \in VideoTimes :
          LET original_image == draw_clock(ClockRenderer(config.clock_size), time[1], time[2])
              future_image == draw_clock(ClockRenderer(config.clock_size), future[1], future[2])
          IN  /\ original_image # future_image
              /\ args = [first_image |-> transpose(original_image),
                         final_image |-> future_image,
                         task_id |-> balanced_task_id(config.domain, 0, 0),
                         original_image |-> original_image]
    /\ Idle

call_generate_video ==
    /\ pc = "call"
    /\ \E encoded \in BOOLEAN :
          result' = _generate_video(Self, args.first_image, args.final_image,
                                    args.task_id, args.original_image, encoded)
    /\ frames' = IF video_generator # <<>>
                 THEN video_frames(video_generator[1], args.first_image,
                                   args.final_image, args.original_image)
                 ELSE frames
    /\ pc' = "returned"
    /\ UNCHANGED <<config, video_generator, datasetVars, locals, args>>

NextVideo == call_generate_video

SpecVideo == InitVideo /\ [][NextVideo]_vars

----------------------------------------------------------------------------
(* generate_dataset *)

DatasetTimes == {<<12, 0>>}
DatasetDeltas == {<<1, 0>>}
DatasetTemplates == {1}

Init ==
    /\ pc = "start"
    /\ \E num_samples \in 0..MaxSamples \cup {10},
          difficulty \in {None} \cup choice(difficulties),
          generate_videos \in BOOLEAN, balanced_difficulty \in BOOLEAN,
          is_available \in BOOLEAN :
          /\ num_samples > MaxSamples => balanced_difficulty
          /\ config = TaskConfig(num_samples, difficulty, generate_videos,
                                 balanced_difficulty, 10)
          /\ video_generator = init_video_generator(config, is_available)
    /\ args = config
    /\ Idle

count_extra_while_not_negative(samples_per_difficulty, left) ==
    samples_per_difficulty + (IF left >= 0 THEN 1 ELSE 0)

\* count = samples_per_difficulty + (1 if remaining > 0 else 0), line 412
group_count(samples_per_difficulty, left) ==
    samples_per_difficulty + (IF left > 0 THEN 1 ELSE 0)

\* generate_dataset, lines 395-400, and the head of _generate_balanced_dataset,
\* lines 404-409
generate_dataset ==
    /\ pc = "start"
    /\ IF config.balanced_difficulty
       THEN /\ remaining' = config.num_samples % Len(difficulties)
            /\ group' = 1
            /\ pc' = "group"
       ELSE /\ UNCHANGED <<remaining, group>>
            /\ pc' = "base"
    /\ pairs' = <<>>
    /\ task_counter' = 0
    /\ UNCHANGED <<config, video_generator, count, i, original_difficulty, printed,
                   levels, locals, frames, args, result>>

\* for difficulty in difficulties: lines 411-417
group_begin ==
    /\ pc = "group"
    /\ count' = group_count(config.num_samples \div Len(difficulties), remaining)
    /\ remaining' = remaining - 1
    /\ original_difficulty' = config.difficulty
    /\ config' = [config EXCEPT !.difficulty = difficulties[group]]
    /\ i' = 0
    /\ pc' = "tasks"
    /\ UNCHANGED <<video_generator, pairs, task_counter, group, printed, levels,
                   locals, frames, args, result>>

\* one pass of for i in range(count): lines 419-424
balanced_task ==
    /\ pc = "tasks"
    /\ i < count
    /\ \E difficulty \in task_difficulty(Self) :
          \E time \in _generate_random_time(difficulty) \cap DatasetTimes,
             drawn \in delta_draws_in(difficulty, DatasetDeltas),
             template \in DOMAIN PROMPTS \cap DatasetTemplates, encoded \in BOOLEAN :
             LET task_id == balanced_task_id(config.domain, task_counter, i)
                 rnd == draws(difficulty, time, drawn, template, encoded)
             IN  /\ task_step(task_id, rnd)
                 /\ pairs' = Append(pairs, generate_task_pair(Self, task_id, rnd))
                 /\ printed' = Append(printed, <<task_id, difficulties[group]>>)
    /\ task_counter' = task_counter + 1
    /\ i' = i + 1
    /\ UNCHANGED <<pc, config, video_generator, remaining, group, count,
                   original_difficulty, args, result>>

restore_difficulty_skipped(cfg, original) == cfg

\* self.config.difficulty = original_difficulty, line 427
restore_difficulty(cfg, original) == [cfg EXCEPT !.difficulty = original]

\* the end of one difficulty: line 427, then the next difficulty or return pairs
group_end ==
    /\ pc = "tasks"
    /\ i >= count
    /\ config' = restore_difficulty(config, original_difficulty)
    /\ IF group < Len(difficulties)
       THEN /\ group' = group + 1
            /\ pc' = "group"
            /\ UNCHANGED result
       ELSE /\ UNCHANGED group
            /\ pc' = "done"
            /\ result' = pairs
    /\ UNCHANGED <<video_generator, pairs, task_counter, remaining, count, i,
                   original_difficulty, printed, levels, locals, frames, args>>

\* BaseGenerator.generate_dataset: one pass of its loop over num_samples task ids
base_task ==
    /\ pc = "base"
    /\ task_counter < config.num_samples
    /\ \E difficulty \in task_difficulty(Self) :
          \E time \in _generate_random_time(difficulty) \cap DatasetTimes,
             drawn \in delta_draws_in(difficulty, DatasetDeltas),
             template \in DOMAIN PROMPTS \cap DatasetTemplates, encoded \in BOOLEAN :
             LET task_id == balanced_task_id(config.domain, task_counter, task_counter)
                 rnd == draws(difficulty, time, drawn, template, encoded)
             IN  /\ task_step(task_id, rnd)
                 /\ pairs' = Append(pairs, generate_task_pair(Self, task_id, rnd))
    /\ task_counter' = task_counter + 1
    /\ UNCHANGED <<pc, config, video_generator, remaining, group, count, i,
                   original_difficulty, printed, args, result>>

\* BaseGenerator.generate_dataset returns its list
base_return ==
    /\ pc = "base"
    /\ task_counter >= config.num_samples
    /\ pc' = "done"
    /\ result' = pairs
    /\ UNCHANGED <<config, video_generator, datasetVars, locals, frames, args>>

Next ==
    \/ generate_dataset
    \/ group_begin
    \/ balanced_task
    \/ group_end
    \/ base_task
    \/ base_return

Spec == Init /\ [][Next]_vars

----------------------------------------------------------------------------
(* Properties *)

\* weight of face f in image img
W(img, f) == IF f \in DOMAIN img.mix THEN img.mix[f] ELSE 0

\* fr is the linear interpolation (1 - j/n) * a + (j/n) * b, face by face
IsLerp(fr, a, b, j, n) ==
    /\ fr.size = a.size
    /\ \A f \in DOMAIN fr.mix \cup DOMAIN a.mix \cup DOMAIN b.mix :
          n * W(fr, f) * a.den * b.den
              = fr.den * (((n - j) * W(a, f) * b.den) + (j * W(b, f) * a.den))

VideoMade == pc = "returned" /\ video_generator # <<>>

\* C1 as stated: whenever _generate_video runs with a video generator present,
\* the frame sequence handed to the encoder has exactly 105 frames, whatever the
\* video fps and whatever the three images.
C1_FrameCount105 == VideoMade => Len(frames) = 105

\* C1 amended: whenever _generate_video runs with a video generator present, the
\* frame sequence handed to the encoder has exactly 85 frames (15 + 20 + 15 + 20
\* + 15), whatever the video fps and whatever the three images.
C1_FrameCount == VideoMade => Len(frames) = 85

C1_Witness ==
    /\ VideoMade
    /\ video_generator[1].fps = 30
    /\ Len(frames) = 85

\* C2: the frames are, in order and with nothing else: 15 copies of the mirrored
\* image, 20 crossfade frames mirrored -> original, 15 copies of the original
\* image, 20 crossfade frames original -> future, 15 copies of the future image;
\* crossfade frame j (0..19) is the blend with factor j/19, so frame 0 is the pure
\* "from" image and frame 19 the pure "to" image.
C2_FrameOrder ==
    VideoMade =>
        /\ Len(frames) = 15 + 20 + 15 + 20 + 15
        /\ \A k \in 1..15 : frames[k] = args.first_image
        /\ \A j \in 0..19 :
              IsLerp(frames[16 + j], args.first_image, args.original_image, j, 19)
        /\ frames[16] = args.first_image
        /\ frames[35] = args.original_image
        /\ \A k \in 36..50 : frames[k] = args.original_image
        /\ \A j \in 0..19 :
              IsLerp(frames[51 + j], args.original_image, args.final_image, j, 19)
        /\ frames[51] = args.original_image
        /\ frames[70] = args.final_image
        /\ \A k \in 71..85 : frames[k] = args.final_image

C2_Witness ==
    /\ VideoMade
    /\ frames[35] = args.original_image
    /\ frames[25] \notin {args.first_image, args.original_image}
    /\ frames[60] \notin {args.original_image, args.final_image}

\* C3: for hour in 0..23, minute in 0..59, add_hours >= 0 and add_minutes in
\* 0..59, _add_time returns (H, M) with H in 0..23, M in 0..59 and
\* 60*H + M = (60*hour + minute + 60*add_hours + add_minutes) mod 1440;
\* _add_time(23, 45, 1, 30) = (1, 15).
C3_AddTimeModular ==
    pc = "returned" =>
        /\ result[1] \in 0..23
        /\ result[2] \in 0..59
        /\ (60 * result[1]) + result[2]
              = ((60 * args[1]) + args[2] + (60 * args[3]) + args[4]) % 1440
        /\ args = <<23, 45, 1, 30>> => result = <<1, 15>>

C3_Witness ==
    /\ pc = "returned"
    /\ args = <<23, 45, 1, 30>>
    /\ result = <<1, 15>>

\* C4: for every task, at every difficulty, the future time differs from the
\* original time and lies the sampled delta (60*add_hours + add_minutes minutes,
\* at least 1 and less than 1440) ahead of it on the 24-hour dial.
C4_FutureStrictlyAfter ==
    pc = "sampled" =>
        LET original == (60 * locals.hours) + locals.minutes
            future == (60 * locals.future_hours) + locals.future_minutes
            delta == (60 * locals.add_hours) + locals.add_minutes
        IN  /\ delta \in 1..1439
            /\ <<locals.future_hours, locals.future_minutes>>
                  # <<locals.hours, locals.minutes>>
            /\ ((future + 1440) - original) % 1440 = delta

C4_Witness ==
    /\ pc = "sampled"
    /\ locals.difficulty = "hard"
    /\ locals.minutes + locals.add_minutes >= 60
    /\ locals.add_hours = 0
    /\ locals.future_hours = locals.hours + 1

\* C5: _generate_time_delta never returns (0, 0), and what it returns is in the
\* range of the difficulty: easy hours 1..3 and minutes 0; medium hours 0..2 and
\* minutes 0 or 30, a zero draw becoming hours = 1; hard hours 0..3 and minutes
\* 0..59, a zero draw becoming minutes in 15..45.
C5_DeltaRange ==
    pc = "sampled" =>
        LET hours == locals.add_hours
            minutes == locals.add_minutes
            drawn == locals.drawn
        IN  /\ <<hours, minutes>> # <<0, 0>>
            /\ locals.difficulty = "easy" => hours \in 1..3 /\ minutes = 0
            /\ locals.difficulty = "medium" =>
                  /\ hours \in 0..2
                  /\ minutes \in {0, 30}
                  /\ IF drawn = <<0, 0>>
                     THEN <<hours, minutes>> = <<1, 0>>
                     ELSE <<hours, minutes>> = drawn
            /\ locals.difficulty = "hard" =>
                  /\ hours \in 0..3
                  /\ minutes \in 0..59
                  /\ IF drawn[1] = 0 /\ drawn[2] = 0
                     THEN hours = 0 /\ minutes \in 15..45
                     ELSE <<hours, minutes>> = drawn

C5_Witness ==
    /\ pc = "sampled"
    /\ locals.difficulty = "hard"
    /\ locals.drawn = <<0, 0, 15>>
    /\ <<locals.add_hours, locals.add_minutes>> = <<0, 15>>

\* number of generate_task_pair calls that ran at difficulty d
TasksAt(d) == Cardinality({k \in DOMAIN levels : levels[k] = d})

BalancedDone == pc = "done" /\ args.balanced_difficulty

\* C6: a balanced run of num_samples >= 0 generates num_samples // 3 tasks per
\* difficulty plus one more for each of the first num_samples % 3 difficulties
\* in the order easy, medium, hard: num_samples records in all, counts that
\* differ by at most 1, and 4, 3, 3 for num_samples = 10.
C6_BalancedCounts ==
    BalancedDone =>
        /\ \A g \in 1..3 :
              TasksAt(difficulties[g])
                  = (args.num_samples \div 3) + (IF g <= args.num_samples % 3 THEN 1 ELSE 0)
        /\ Len(result) = args.num_samples
        /\ \A d, e \in {"easy", "medium", "hard"} : TasksAt(d) - TasksAt(e) <= 1
        /\ args.num_samples = 10 =>
              <<TasksAt("easy"), TasksAt("medium"), TasksAt("hard")>> = <<4, 3, 3>>

C6_Witness ==
    /\ BalancedDone
    /\ args.num_samples = 10
    /\ <<TasksAt("easy"), TasksAt("medium"), TasksAt("hard")>> = <<4, 3, 3>>

\* k as four decimal digits, for k < 10000
FourDigits(k) ==
    <<Digits[(k \div 1000) + 1], Digits[((k \div 100) % 10) + 1],
      Digits[((k \div 10) % 10) + 1], Digits[(k % 10) + 1]>>

\* C7: in a balanced run the k-th record (k from 0) has the id <domain>_ followed
\* by k zero-padded to 4 digits: the ids are unique, increasing and gapless, and
\* the counter is neither reset nor skipped between difficulty groups.
C7_SequentialIds ==
    args.balanced_difficulty =>
        /\ \A k \in DOMAIN pairs :
              pairs[k].task_id = <<"mirror_clock", "_">> \o FourDigits(k - 1)
        /\ \A k, l \in DOMAIN pairs : k # l => pairs[k].task_id # pairs[l].task_id
        /\ Len(pairs) = task_counter
        /\ pc = "done" => Len(pairs) = args.num_samples

C7_Witness ==
    /\ BalancedDone
    /\ args.num_samples = 10
    /\ printed[4][2] = "easy"
    /\ printed[5] = <<pairs[5].task_id, "medium">>
    /\ pairs[5].task_id = <<"mirror_clock", "_", "0", "0", "0", "4">>
    /\ pairs[10].task_id = <<"mirror_clock", "_", "0", "0", "0", "9">>

\* C8: when the configuration carries a fixed difficulty, every task returned by
\* generate_dataset is generated at that difficulty.
C8_FixedDifficultyEveryTask ==
    (pc = "done" /\ args.difficulty # None) =>
        \A k \in DOMAIN levels : levels[k] = args.difficulty

\* the random values the last generate_task_pair call drew
LastDraws ==
    [difficulty |-> locals.difficulty, time |-> <<locals.hours, locals.minutes>>,
     drawn |-> locals.drawn, template |-> locals.template, encoded |-> locals.encoded]

\* C9: generate_task_pair always returns a record; its video reference is present
\* only if video generation is enabled, an encoder was available at construction
\* and the encoder returned a path; otherwise it is None, and the images and the
\* prompt are those the call gives without any video.
C9_VideoOptional ==
    pc = "returned" =>
        /\ result.task_id = args
        /\ result.ground_truth_video # <<>> =>
              /\ config.generate_videos
              /\ video_generator # <<>>
              /\ locals.encoded
              /\ result.ground_truth_video = video_path(config.domain, args)
        /\ (~config.generate_videos \/ video_generator = <<>> \/ ~locals.encoded) =>
              result.ground_truth_video = <<>>
        /\ [result EXCEPT !.ground_truth_video = <<>>]
              = generate_task_pair([Self EXCEPT !.video_generator = <<>>], args, LastDraws)

C9_Witness ==
    /\ pc = "returned"
    /\ config.generate_videos
    /\ video_generator # <<>>
    /\ ~locals.encoded
    /\ result.ground_truth_video = <<>>
    /\ result.first_image = locals.mirrored_image

Contains(s, sub) ==
    \E k \in 0..(Len(s) - Len(sub)) : SubSeq(s, k + 1, k + Len(sub)) = sub

HasHourClause(s) == Contains(s, <<"h", "o", "u", "r">>)
HasMinuteClause(s) == Contains(s, <<"m", "i", "n", "u", "t", "e">>)

\* "<v> <unit>", with the plural s unless v is 1
Clause(v, unit) == str(v) \o <<" ">> \o unit \o (IF v = 1 THEN <<>> ELSE <<"s">>)

\* the hour clause if withHour, the minute clause if withMinute, " and " between
Clauses(hours, minutes, withHour, withMinute) ==
    (IF withHour THEN Clause(hours, <<"h", "o", "u", "r">>) ELSE <<>>)
        \o (IF withHour /\ withMinute THEN <<" ", "a", "n", "d", " ">> ELSE <<>>)
        \o (IF withMinute THEN Clause(minutes, <<"m", "i", "n", "u", "t", "e">>) ELSE <<>>)

FormatExamples ==
    /\ args = <<0, 1>> => result = <<"1", " ", "m", "i", "n", "u", "t", "e">>
    /\ args = <<2, 0>> => result = <<"2", " ", "h", "o", "u", "r", "s">>
    /\ args = <<1, 1>> =>
          result = <<"1", " ", "h", "o", "u", "r", " ", "a", "n", "d", " ",
                     "1", " ", "m", "i", "n", "u", "t", "e">>
    /\ args = <<1, 30>> =>
          result = <<"1", " ", "h", "o", "u", "r", " ", "a", "n", "d", " ",
                     "3", "0", " ", "m", "i", "n", "u", "t", "e", "s">>

\* C10 as stated: for every hours >= 0 and minutes in 0..59 the output has an hour
\* clause exactly when hours # 0 and a minute clause exactly when minutes # 0,
\* " and " between the two, and the singular unit exactly when the value is 1.
C10_ClausesAsClaimed ==
    pc = "returned" =>
        /\ HasHourClause(result) <=> args[1] # 0
        /\ HasMinuteClause(result) <=> args[2] # 0
        /\ result = Clauses(args[1], args[2], args[1] # 0, args[2] # 0)
        /\ FormatExamples

\* C10 amended: the output has an hour clause exactly when hours # 0 and a minute
\* clause exactly when minutes # 0 or hours = 0 (so (0, 0) gives "0 minutes"),
\* " and " between the two when both are present, and the singular unit exactly
\* when the value is 1.
C10_Clauses ==
    pc = "returned" =>
        /\ HasHourClause(result) <=> args[1] # 0
        /\ HasMinuteClause(result) <=> (args[2] # 0 \/ args[1] = 0)
        /\ result = Clauses(args[1], args[2], args[1] # 0, args[2] # 0 \/ args[1] = 0)
        /\ FormatExamples

C10_Witness ==
    /\ pc = "returned"
    /\ args = <<0, 0>>
    /\ result = <<"0", " ", "m", "i", "n", "u", "t", "e", "s">>

\* the one face of a rendered image
TheFace(img) == CHOOSE f \in DOMAIN img.mix : TRUE

\* C11: for hour in 0..23 and minute in 0..59 draw_clock paints the hour hand at
\* (hour mod 12)*30 + minute*0.5 degrees and the minute hand at minute*6 degrees,
\* clockwise from 12 and in [0, 360), so hours h and h+12 give the same angles;
\* the hour hand is at 90 degrees at (3, 0) and at 15 degrees at (12, 30) and at
\* (0, 30).  Angles are compared in half degrees.
C11_HandAngles ==
    pc = "returned" =>
        LET face == TheFace(result)
            hour == args[1]
            minute == args[2]
        IN  /\ DOMAIN result.mix = {face}
            /\ ~face.flipped
            /\ face.hour_angle = (2 * ((hour % 12) * 30)) + minute
            /\ face.minute_angle = 2 * (minute * 6)
            /\ face.hour_angle \in 0..719
            /\ face.minute_angle \in 0..719
            /\ result = draw_clock(Self.clock_renderer, (hour + 12) % 24, minute)
            /\ args = <<3, 0>> => face.hour_angle = 2 * 90
            /\ args \in {<<12, 30>>, <<0, 30>>} => face.hour_angle = 2 * 15

C11_Witness ==
    /\ pc = "returned"
    /\ args = <<12, 30>>
    /\ TheFace(result).hour_angle = 30
    /\ TheFace(result).minute_angle = 360

\* the places of text s where sub starts
Occurrences(s, sub) ==
    {k \in 0..(Len(s) - Len(sub)) : SubSeq(s, k + 1, k + Len(sub)) = sub}

\* the places of a template that hold the placeholder
Placeholders(template) == {k \in DOMAIN template : template[k] = PLACEHOLDER}

\* C12: a record returned by generate_task_pair is consistent with one sampled
\* (original time, delta): first_image is the horizontal flip of the rendering of
\* the original time (not the unflipped rendering, not the future time),
\* final_image is the unflipped rendering of _add_time(original, delta), and the
\* prompt is the chosen template with _format_time_delta of that delta in the
\* place of every placeholder.
C12_RecordConsistent ==
    pc = "returned" =>
        LET renderer == Self.clock_renderer
            original == draw_clock(renderer, locals.hours, locals.minutes)
            future == _add_time(locals.hours, locals.minutes,
                                locals.add_hours, locals.add_minutes)
            rendered == draw_clock(renderer, future[1], future[2])
            text == _format_time_delta(locals.add_hours, locals.add_minutes)
            template == PROMPTS[locals.template]
        IN  /\ <<locals.add_hours, locals.add_minutes>>
                  = _generate_time_delta(locals.difficulty, locals.drawn)
            /\ result.first_image = transpose(original)
            /\ TheFace(result.first_image).flipped
            /\ TheFace(result.first_image).hour_angle
                  = ((locals.hours % 12) * 60) + locals.minutes
            /\ TheFace(result.first_image).minute_angle = locals.minutes * 12
            /\ result.first_image \notin {original, rendered, transpose(rendered)}
            /\ result.final_image = rendered
            /\ ~TheFace(result.final_image).flipped
            /\ \A k \in DOMAIN result.prompt : <<result.prompt[k]>> # PLACEHOLDER
            /\ Cardinality(Occurrences(result.prompt, text))
                  = Cardinality(Placeholders(template))
            /\ Len(result.prompt)
                  = (Len(template) - Cardinality(Placeholders(template)))
                      + (Cardinality(Placeholders(template)) * Len(text))
            /\ \A k \in DOMAIN template :
                  template[k] # PLACEHOLDER => Contains(result.prompt, template[k])

C12_Witness ==
    /\ pc = "returned"
    /\ locals.template = 3
    /\ <<locals.hours, locals.minutes>> = <<11, 45>>
    /\ <<locals.add_hours, locals.add_minutes>> = <<2, 30>>
    /\ TheFace(result.final_image).hour_angle = (2 * 60) + 15
    /\ Cardinality(Occurrences(result.prompt, locals.time_delta_str)) = 3

\* C13: balanced generation leaves config.difficulty as it found it: when
\* _generate_balanced_dataset has finished, and between two difficulty groups,
\* config.difficulty is the value it had before the call (None or a fixed level);
\* while a group is generated it is the group's level, at which every
\* generate_task_pair call of the group runs.
C13_DifficultyRestored ==
    args.balanced_difficulty =>
        /\ pc \in {"start", "group", "done"} => config = args
        /\ pc = "tasks" =>
              /\ config.difficulty = difficulties[group]
              /\ original_difficulty = args.difficulty
              /\ config = [args EXCEPT !.difficulty = difficulties[group]]
        /\ Len(levels) = Len(printed)
        /\ \A k \in DOMAIN levels : levels[k] = printed[k][2]

C13_Witness ==
    /\ args.balanced_difficulty
    /\ pc = "group"
    /\ group = 3
    /\ args.difficulty = "hard"
    /\ config.difficulty = "hard"
    /\ levels = <<"easy", "medium">>

\* C14: for every task, at any difficulty, the original hour is in 1..12 and
\* hour + add_hours + carry is at most 16, so the wraparound of _add_time at 24
\* is never taken: the future hour is in 1..16, the future time is later than the
\* original time on the same day, and the future minute stays on the grid of the
\* difficulty (0 for easy, a multiple of 5 for medium).
C14_NoWraparound ==
    pc = "sampled" =>
        LET carry == (locals.minutes + locals.add_minutes) \div 60
            unreduced == locals.hours + locals.add_hours + carry
        IN  /\ locals.hours \in 1..12
            /\ unreduced <= 16
            /\ locals.future_hours = unreduced
            /\ locals.future_hours \in 1..16
            /\ (60 * locals.future_hours) + locals.future_minutes
                  > (60 * locals.hours) + locals.minutes
            /\ locals.difficulty = "easy" => locals.future_minutes = 0
            /\ locals.difficulty = "medium" => locals.future_minutes % 5 = 0

C14_Witness ==
    /\ pc = "sampled"
    /\ locals.difficulty = "hard"
    /\ <<locals.hours, locals.minutes>> = <<12, 59>>
    /\ <<locals.add_hours, locals.add_minutes>> = <<3, 59>>
    /\ <<locals.future_hours, locals.future_minutes>> = <<16, 58>>

====
